---- MODULE Spec2Model ----
(***************************************************************************)
(* Model of actions_job_parser.py: discovery of workflow files, the        *)
(* purely-reusable classification, the recursive expansion of local        *)
(* reusable-workflow calls (parse_workflow_jobs, as an explicit call       *)
(* stack) and the deduplicating, sorting driver (main).                    *)
(*                                                                         *)
(* Strings are TLA+ strings; an optional value is a sequence of length at  *)
(* most one (<<>> = the key is not written).                               *)
(***************************************************************************)
EXTENDS Integers, Sequences, FiniteSets, TLC

(***************************************************************************)
(* Bounds                                                                  *)
(***************************************************************************)
\* A repository differs from the one with two empty workflow files by at
\* most MaxEdits written features (a key, a job, a corrupted file).
MaxEdits == 2
\* The interpreter's recursion limit, counted in parse_workflow_jobs frames.
RecursionLimit == 3

(***************************************************************************)
(* String helpers (str methods and pathlib as the code uses them)          *)
(***************************************************************************)
StartsWith(s, p) == Len(s) >= Len(p) /\ SubSeq(s, 1, Len(p)) = p

EndsWith(s, p) == Len(s) >= Len(p) /\ SubSeq(s, Len(s) - Len(p) + 1, Len(s)) = p

CharAt(s, i) == SubSeq(s, i, i)

\* Position of the last occurrence of the one-character string ch in s, 0 if none.
LastIndexOf(s, ch) ==
    LET hits == {i \in 1..Len(s) : CharAt(s, i) = ch}
    IN  IF hits = {} THEN 0 ELSE CHOOSE i \in hits : \A j \in hits : j <= i

\* Path.name: the final path component.
BaseName(p) == SubSeq(p, LastIndexOf(p, "/") + 1, Len(p))

\* Path.stem: the final component without its last suffix.
Stem(p) ==
    LET n == BaseName(p)
        d == LastIndexOf(n, ".")
    IN  IF d <= 1 THEN n ELSE SubSeq(n, 1, d - 1)

\* Path.parent of a relative path.
Parent(p) == SubSeq(p, 1, LastIndexOf(p, "/") - 1)

\* Path(repo_root) / uses_path: pathlib drops "." components, so the leading
\* "./" of uses_path disappears; paths are kept relative to repo_root.
JoinRepoRoot(uses_path) ==
    IF StartsWith(uses_path, "./") THEN SubSeq(uses_path, 3, Len(uses_path))
    ELSE uses_path

\* The characters of the names in use, in code point order (str comparison).
Alphabet == " ./0123456789@ABCDEFGHIJKLMNOPQRSTUVWXYZ_abcdefghijklmnopqrstuvwxyz"

Ord(ch) == CHOOSE i \in 1..Len(Alphabet) : CharAt(Alphabet, i) = ch

\* Python's s < t on str.
RECURSIVE StrLess(_, _)
StrLess(s, t) ==
    IF Len(t) = 0 THEN FALSE
    ELSE IF Len(s) = 0 THEN TRUE
    ELSE IF CharAt(s, 1) = CharAt(t, 1)
         THEN StrLess(SubSeq(s, 2, Len(s)), SubSeq(t, 2, Len(t)))
         ELSE Ord(CharAt(s, 1)) < Ord(CharAt(t, 1))

\* Python's p < q on (str, str) tuples.
TupleLess(p, q) == StrLess(p[1], q[1]) \/ (p[1] = q[1] /\ StrLess(p[2], q[2]))

\* All the orders in which a directory listing can enumerate the set S.
RECURSIVE Listings(_)
Listings(S) ==
    IF S = {} THEN {<<>>}
    ELSE UNION {{<<x>> \o l : l \in Listings(S \ {x})} : x \in S}

(***************************************************************************)
(* The repository on disk                                                  *)
(***************************************************************************)
WorkflowsDir == ".github/workflows"

FileA == ".github/workflows/a.yml"
FileB == ".github/workflows/b.yml"
FileC == ".github/workflows/c.yaml"
FileD == ".github/workflows/sub/d.yml"
FileMissing == ".github/workflows/zz.yml"

\* The uses string that names a path of the repository.
UsesOf(path) == "./" \o path

ExternalUses == "actions/checkout@v4"

NoTrigger == [shape |-> "none", keys |-> <<>>]
CallOnly == [shape |-> "map", keys |-> <<"workflow_call">>]
CallAndPush == [shape |-> "map", keys |-> <<"workflow_call", "push">>]
CallToken == [shape |-> "token", keys |-> <<"workflow_call">>]
CallList == [shape |-> "seq", keys |-> <<"workflow_call">>]

\* A file with nothing written in it.
EmptyText == [syntax |-> "ok", name |-> <<>>, onKey |-> "absent", on |-> NoTrigger,
              jobs |-> <<>>]

\* What can be written as one entry of jobs (its id is given by its place).
JobTemplates ==
    {[isMap |-> TRUE, name |-> n, uses |-> <<>>] : n \in {<<>>, <<"build">>}}
    \cup {[isMap |-> TRUE, name |-> <<"build">>, uses |-> <<ExternalUses>>]}
    \cup {[isMap |-> TRUE, name |-> <<>>, uses |-> <<UsesOf(f)>>] :
            f \in {FileA, FileB, FileC, FileD, FileMissing}}
    \cup {[isMap |-> TRUE, name |-> <<"build">>, uses |-> <<UsesOf(FileC)>>]}
    \cup {[isMap |-> FALSE, name |-> <<>>, uses |-> <<>>]}

JobId(path, i) == Stem(path) \o CharAt("123456789", i)

JobsOf(text) == IF text.jobs = <<>> THEN <<>> ELSE text.jobs[1]

AppendJob(path, text, tpl) ==
    LET old == JobsOf(text)
        job == [id |-> JobId(path, Len(old) + 1), isMap |-> tpl.isMap,
                name |-> tpl.name, uses |-> tpl.uses]
    IN  [text EXCEPT !.jobs = <<Append(old, job)>>]

\* The file with one more written feature.
EditsOf(path, text) ==
    {AppendJob(path, text, tpl) : tpl \in JobTemplates}
    \cup {[text EXCEPT !.name = <<"CI">>]}
    \cup {[text EXCEPT !.onKey = k, !.on = CallOnly] : k \in {"plain", "quoted"}}
    \cup {[text EXCEPT !.onKey = "quoted", !.on = t] :
            t \in {CallAndPush, CallToken, CallList}}
    \cup {[text EXCEPT !.syntax = "error"]}

\* The number of features written in a file.
Features(text) ==
    Len(JobsOf(text)) + Len(text.name) + (IF text.onKey = "absent" THEN 0 ELSE 1)
    + (IF text.syntax = "error" THEN 1 ELSE 0)

\* Two files whose content does not vary: a purely reusable workflow with two
\* terminal jobs, and a workflow file in a subdirectory of the workflows directory.
TextC == [syntax |-> "ok", name |-> <<"Lib">>, onKey |-> "quoted", on |-> CallOnly,
          jobs |-> << <<[id |-> "test", isMap |-> TRUE, name |-> <<>>, uses |-> <<>>],
                        [id |-> "pkg", isMap |-> TRUE, name |-> <<"package">>,
                         uses |-> <<>>]>> >>]
TextD == [syntax |-> "ok", name |-> <<"Deep">>, onKey |-> "absent", on |-> NoTrigger,
          jobs |-> << <<[id |-> "deep", isMap |-> TRUE, name |-> <<>>, uses |-> <<>>]>> >>]

BaseDisk == (FileA :> EmptyText) @@ (FileB :> EmptyText) @@ (FileC :> TextC)
            @@ (FileD :> TextD)

Editable == {FileA, FileB}

(***************************************************************************)
(* yaml.safe_load                                                          *)
(***************************************************************************)
\* The mapping yaml.safe_load builds from a file that parses. PyYAML resolves
\* plain scalars by the YAML 1.1 rules, mapping keys included: the plain
\* scalar on is the boolean True, so a trigger written under the plain key
\* on is stored under the key True and only a quoted "on" is the string key.
yaml_safe_load(text) ==
    [name |-> text.name,
     on |-> IF text.onKey = "quoted" THEN <<text.on>> ELSE <<>>,
     bool_true |-> IF text.onKey = "plain" THEN <<text.on>> ELSE <<>>,
     jobs |-> text.jobs]

\* not workflow: None (nothing written) is falsy.
Falsy(workflow) ==
    workflow.name = <<>> /\ workflow.on = <<>> /\ workflow.bool_true = <<>>
    /\ workflow.jobs = <<>>

(***************************************************************************)
(* find_workflow_files, is_reusable_workflow                               *)
(***************************************************************************)
Glob(d, suffix) ==
    {p \in DOMAIN d : Parent(p) = WorkflowsDir /\ EndsWith(BaseName(p), suffix)}

\* The lists find_workflow_files can return: the *.yml files in the order the
\* directory lists them, then the *.yaml files.
find_workflow_files(d) ==
    {l1 \o l2 : l1 \in Listings(Glob(d, ".yml")), l2 \in Listings(Glob(d, ".yaml"))}

is_reusable_workflow(d, file_path) ==
    IF d[file_path].syntax = "error" THEN FALSE
    ELSE LET workflow == yaml_safe_load(d[file_path])
         IN  IF Falsy(workflow) \/ workflow.on = <<>> THEN FALSE
             ELSE LET on_trigger == workflow.on[1]
                  IN  /\ on_trigger.shape = "map"
                      /\ \E i \in 1..Len(on_trigger.keys) :
                            on_trigger.keys[i] = "workflow_call"
                      /\ Len(on_trigger.keys) = 1

(***************************************************************************)
(* State                                                                   *)
(***************************************************************************)
VARIABLES
    disk,           \* path -> the text of the file at that path
    pc,             \* main: "idle" (not started), "loop" (lines 171-176), "done"
    files,          \* all_workflow_files
    top,            \* top_level_workflows
    idx,            \* position of the for loop of line 171 in top
    stack,          \* the active calls of parse_workflow_jobs, outermost first
    all_job_infos,  \* the set of (workflow_name, name) tuples
    out,            \* the tuples the loop of line 181 prints, in order
    log,            \* what logging.warning and logging.error reported
    overflow,       \* which frame's handler catches a RecursionError in this build
    returned,       \* history: per call of line 174, in call order, its file, the
                    \* job_infos it returned and where its loop stood
    run,            \* history: 1 in the first run of main, 2 in a repeated run
    prev            \* history: files and out of the first run

vars == <<disk, pc, files, top, idx, stack, all_job_infos, out, log, overflow,
          returned, run, prev>>

Init ==
    /\ disk = BaseDisk
    /\ pc = "idle"
    /\ files = <<>>
    /\ top = <<>>
    /\ idx = 1
    /\ stack = <<>>
    /\ all_job_infos = {}
    /\ out = <<>>
    /\ log = {}
    /\ overflow = "unset"
    /\ returned = <<>>
    /\ run = 1
    /\ prev = [files |-> <<>>, out |-> <<>>]

(***************************************************************************)
(* The repository's author                                                 *)
(***************************************************************************)
\* Before main runs, a feature is written into a workflow file.
WriteFeature ==
    /\ pc = "idle" /\ run = 1
    /\ \E f \in Editable : \E t \in EditsOf(f, disk[f]) :
          /\ Features(t) + Features(disk[CHOOSE g \in Editable : g # f]) <= MaxEdits
          /\ t # disk[f]
          /\ disk' = [disk EXCEPT ![f] = t]
    /\ UNCHANGED <<pc, files, top, idx, stack, all_job_infos, out, log, overflow,
                   returned, run, prev>>

(***************************************************************************)
(* parse_workflow_jobs                                                     *)
(***************************************************************************)
\* Mutant of JobName: the display name is ignored.
JobNameIdOnly(job) == job.id

\* job_details.get("name", job_id)
JobName(job) == IF job.name = <<>> THEN job.id ELSE job.name[1]

\* workflow.get("name", file_path.stem) if workflow else file_path.stem
WorkflowName(file_path, workflow) ==
    IF Falsy(workflow) \/ workflow.name = <<>> THEN Stem(file_path)
    ELSE workflow.name[1]

\* The JobInfo dict. chain is history, not a key of the dict: the places
\* <<file, position in jobs>> of the jobs the name was built from, caller first.
JobInfo(workflow_name, name, chain) ==
    [workflow_name |-> workflow_name, name |-> name, chain |-> chain]

\* Mutant of CombinedName: the callee's name first.
CombinedNameCalleeFirst(caller_job_name, sub_name) ==
    sub_name \o " / " \o caller_job_name

\* f"{caller_job_name} / {sub_job_info['name']}"
CombinedName(caller_job_name, sub_name) == caller_job_name \o " / " \o sub_name

\* Mutant of Combine: the callee's workflow name is kept.
RECURSIVE CombineKeepsCalleeWorkflow(_, _, _, _)
CombineKeepsCalleeWorkflow(workflow_name, caller_job_name, place, sub_jobs) ==
    IF sub_jobs = <<>> THEN <<>>
    ELSE <<JobInfo(Head(sub_jobs).workflow_name,
                   CombinedName(caller_job_name, Head(sub_jobs).name),
                   <<place>> \o Head(sub_jobs).chain)>>
         \o CombineKeepsCalleeWorkflow(workflow_name, caller_job_name, place,
                                       Tail(sub_jobs))

\* Lines 102-108: the callee's jobs under the caller's workflow and job name.
RECURSIVE Combine(_, _, _, _)
Combine(workflow_name, caller_job_name, place, sub_jobs) ==
    IF sub_jobs = <<>> THEN <<>>
    ELSE <<JobInfo(workflow_name, CombinedName(caller_job_name, Head(sub_jobs).name),
                   <<place>> \o Head(sub_jobs).chain)>>
         \o Combine(workflow_name, caller_job_name, place, Tail(sub_jobs))

\* Lines 74-82: the call's frame once the file is loaded. st = "jobs": the
\* loop of line 84 is at jobs[i]; st = "return": the call returns job_infos.
EnterFrame(d, file_path) ==
    LET workflow == yaml_safe_load(d[file_path])
        noJobs == d[file_path].syntax = "error" \/ Falsy(workflow)
                  \/ workflow.jobs = <<>>
    IN  [file |-> file_path,
         st |-> IF noJobs THEN "return" ELSE "jobs",
         workflow_name |-> IF d[file_path].syntax = "error" THEN ""
                           ELSE WorkflowName(file_path, workflow),
         jobs |-> IF noJobs THEN <<>> ELSE workflow.jobs[1],
         i |-> 1,
         job_infos |-> <<>>]

\* Line 121: a file that does not parse is reported.
EnterLog(d, file_path) ==
    IF d[file_path].syntax = "error" THEN {<<"YAMLError", file_path>>} ELSE {}

Depth == Len(stack)
Frame == stack[Depth]
Job == Frame.jobs[Frame.i]
AtJob == Depth > 0 /\ Frame.st = "jobs" /\ Frame.i <= Len(Frame.jobs)

IsLocalUses(uses_path) == StartsWith(uses_path, "./.github/workflows/")

\* Mutant of EmitOwn: the job is put at the front of the list.
EmitOwnAtFront(fr) ==
    [fr EXCEPT !.job_infos = <<JobInfo(fr.workflow_name, JobName(fr.jobs[fr.i]),
                                       << <<fr.file, fr.i>> >>)>> \o @,
               !.i = @ + 1]

\* Lines 112, 116, 119: the job is emitted under its own name, the loop goes on.
EmitOwn(fr) ==
    [fr EXCEPT !.job_infos = Append(@, JobInfo(fr.workflow_name, JobName(fr.jobs[fr.i]),
                                               << <<fr.file, fr.i>> >>)),
               !.i = @ + 1]

SetFrame(fr) == [stack EXCEPT ![Depth] = fr]

\* Mutant of JobError: the handler returns [] instead of job_infos.
JobErrorDiscards ==
    /\ AtJob /\ ~Job.isMap
    /\ stack' = SetFrame([Frame EXCEPT !.st = "return", !.job_infos = <<>>])
    /\ log' = log \cup {<<"UnknownError", Frame.file>>}
    /\ UNCHANGED <<disk, pc, files, top, idx, all_job_infos, out, overflow, returned,
                   run, prev>>

\* Line 86 on an entry of jobs that is no mapping: AttributeError, caught at
\* line 122; the call returns what it has collected.
JobError ==
    /\ AtJob /\ ~Job.isMap
    /\ stack' = SetFrame([Frame EXCEPT !.st = "return"])
    /\ log' = log \cup {<<"UnknownError", Frame.file>>}
    /\ UNCHANGED <<disk, pc, files, top, idx, all_job_infos, out, overflow, returned,
                   run, prev>>

\* Line 119: a job without uses.
JobStandalone ==
    /\ AtJob /\ Job.isMap /\ Job.uses = <<>>
    /\ stack' = SetFrame(EmitOwn(Frame))
    /\ UNCHANGED <<disk, pc, files, top, idx, all_job_infos, out, log, overflow,
                   returned, run, prev>>

\* Line 116: uses names something that is no local workflow path.
JobRemote ==
    /\ AtJob /\ Job.isMap /\ Job.uses # <<>> /\ ~IsLocalUses(Job.uses[1])
    /\ stack' = SetFrame(EmitOwn(Frame))
    /\ UNCHANGED <<disk, pc, files, top, idx, all_job_infos, out, log, overflow,
                   returned, run, prev>>

\* Mutant of JobNotFound: the job is dropped instead of emitted.
JobNotFoundDropsJob ==
    /\ AtJob /\ Job.isMap /\ Job.uses # <<>> /\ IsLocalUses(Job.uses[1])
    /\ JoinRepoRoot(Job.uses[1]) \notin DOMAIN disk
    /\ stack' = SetFrame([Frame EXCEPT !.i = @ + 1])
    /\ log' = log \cup {<<"NotFound", Job.uses[1]>>}
    /\ UNCHANGED <<disk, pc, files, top, idx, all_job_infos, out, overflow, returned,
                   run, prev>>

\* Lines 109-112: the path does not exist.
JobNotFound ==
    /\ AtJob /\ Job.isMap /\ Job.uses # <<>> /\ IsLocalUses(Job.uses[1])
    /\ JoinRepoRoot(Job.uses[1]) \notin DOMAIN disk
    /\ stack' = SetFrame(EmitOwn(Frame))
    /\ log' = log \cup {<<"NotFound", Job.uses[1]>>}
    /\ UNCHANGED <<disk, pc, files, top, idx, all_job_infos, out, overflow, returned,
                   run, prev>>

\* Lines 94-100: the path exists, the called workflow is parsed recursively.
JobCall ==
    /\ AtJob /\ Job.isMap /\ Job.uses # <<>> /\ IsLocalUses(Job.uses[1])
    /\ JoinRepoRoot(Job.uses[1]) \in DOMAIN disk
    /\ Depth < RecursionLimit
    /\ stack' = Append(stack, EnterFrame(disk, JoinRepoRoot(Job.uses[1])))
    /\ log' = log \cup EnterLog(disk, JoinRepoRoot(Job.uses[1]))
    /\ UNCHANGED <<disk, pc, files, top, idx, all_job_infos, out, overflow, returned,
                   run, prev>>

\* The call of line 97 at the recursion limit: RecursionError, an Exception.
\* It is raised while the callee opens and loads its file and caught at the
\* callee's line 122, which returns []; or, when the callee's handler has no
\* room left to log, it leaves the callee and is caught at the caller's line
\* 122, which returns what the caller has collected. Which of the two a build
\* does depends on the interpreter's stack, and is the same at every overflow.
JobOverflow ==
    /\ AtJob /\ Job.isMap /\ Job.uses # <<>> /\ IsLocalUses(Job.uses[1])
    /\ JoinRepoRoot(Job.uses[1]) \in DOMAIN disk
    /\ Depth = RecursionLimit
    /\ \E how \in {"callee", "caller"} :
          /\ overflow \in {"unset", how}
          /\ overflow' = how
          /\ stack' = SetFrame(IF how = "callee" THEN [Frame EXCEPT !.i = @ + 1]
                               ELSE [Frame EXCEPT !.st = "return"])
          /\ log' = log \cup {<<"UnknownError",
                                IF how = "callee" THEN JoinRepoRoot(Job.uses[1])
                                ELSE Frame.file>>}
    /\ UNCHANGED <<disk, pc, files, top, idx, all_job_infos, out, returned, run,
                   prev>>

Returning == Depth > 0 /\ (Frame.st = "return" \/ Frame.i > Len(Frame.jobs))

\* Line 125 in a recursive call: back at line 100 of the caller, lines 102-108.
ReturnToCaller ==
    /\ Returning /\ Depth > 1
    /\ LET caller == stack[Depth - 1]
           caller_job_name == JobName(caller.jobs[caller.i])
       IN  stack' = [SubSeq(stack, 1, Depth - 1) EXCEPT ![Depth - 1] =
                        [caller EXCEPT
                           !.job_infos = @ \o Combine(caller.workflow_name,
                                                      caller_job_name,
                                                      <<caller.file, caller.i>>,
                                                      Frame.job_infos),
                           !.i = @ + 1]]
    /\ UNCHANGED <<disk, pc, files, top, idx, all_job_infos, out, log, overflow,
                   returned, run, prev>>

(***************************************************************************)
(* main                                                                    *)
(***************************************************************************)
\* Lines 163-168.
FindAndFilter ==
    /\ pc = "idle"
    /\ \E l \in find_workflow_files(disk) :
          /\ files' = l
          /\ top' = SelectSeq(l, LAMBDA wf : ~is_reusable_workflow(disk, wf))
    /\ pc' = "loop"
    /\ idx' = 1
    /\ all_job_infos' = {}
    /\ UNCHANGED <<disk, stack, out, log, overflow, returned, run, prev>>

\* Line 174: the call for the next top-level workflow.
ParseTopLevel ==
    /\ pc = "loop" /\ Depth = 0 /\ idx <= Len(top)
    /\ stack' = <<EnterFrame(disk, top[idx])>>
    /\ log' = log \cup EnterLog(disk, top[idx])
    /\ UNCHANGED <<disk, pc, files, top, idx, all_job_infos, out, overflow, returned,
                   run, prev>>

PairOf(job_info) == <<job_info.workflow_name, job_info.name>>

\* Line 125 in the outermost call, then lines 175-176.
ReturnToMain ==
    /\ Returning /\ Depth = 1
    /\ all_job_infos' = all_job_infos
                        \cup {PairOf(Frame.job_infos[k]) : k \in 1..Len(Frame.job_infos)}
    /\ returned' = Append(returned, [file |-> Frame.file, job_infos |-> Frame.job_infos,
                                     i |-> Frame.i])
    /\ stack' = <<>>
    /\ idx' = idx + 1
    /\ UNCHANGED <<disk, pc, files, top, out, log, overflow, run, prev>>

\* Mutant of Sorted: descending order.
RECURSIVE SortedDescending(_)
SortedDescending(S) ==
    IF S = {} THEN <<>>
    ELSE LET m == CHOOSE x \in S : \A y \in S \ {x} : TupleLess(y, x)
         IN  <<m>> \o SortedDescending(S \ {m})

RECURSIVE FirstSeen(_, _)
FirstSeen(seq, seen) ==
    IF seq = <<>> THEN <<>>
    ELSE IF Head(seq) \in seen THEN FirstSeen(Tail(seq), seen)
    ELSE <<Head(seq)>> \o FirstSeen(Tail(seq), seen \cup {Head(seq)})

RECURSIVE PairsInOrder(_)
PairsInOrder(rs) ==
    IF rs = <<>> THEN <<>>
    ELSE [k \in 1..Len(Head(rs).job_infos) |-> PairOf(Head(rs).job_infos[k])]
         \o PairsInOrder(Tail(rs))

\* Mutant of Sorted: the set is printed unsorted, in the order of discovery.
DiscoveryOrder(S) == FirstSeen(PairsInOrder(returned), {})

\* sorted() of a set of (str, str) tuples.
RECURSIVE Sorted(_)
Sorted(S) ==
    IF S = {} THEN <<>>
    ELSE LET m == CHOOSE x \in S : \A y \in S \ {x} : TupleLess(x, y)
         IN  <<m>> \o Sorted(S \ {m})

\* Lines 181-185.
PrintSorted ==
    /\ pc = "loop" /\ Depth = 0 /\ idx > Len(top)
    /\ out' = Sorted(all_job_infos)
    /\ pc' = "done"
    /\ UNCHANGED <<disk, files, top, idx, stack, all_job_infos, log, overflow, returned,
                   run, prev>>

\* main is run once more on the unchanged files.
RunAgain ==
    /\ pc = "done" /\ run = 1
    /\ run' = 2
    /\ prev' = [files |-> files, out |-> out]
    /\ pc' = "idle"
    /\ files' = <<>> /\ top' = <<>> /\ idx' = 1 /\ out' = <<>> /\ log' = {}
    /\ all_job_infos' = {} /\ returned' = <<>>
    /\ UNCHANGED <<disk, stack, overflow>>

Next ==
    \/ WriteFeature
    \/ FindAndFilter
    \/ ParseTopLevel
    \/ JobError
    \/ JobStandalone
    \/ JobRemote
    \/ JobNotFound
    \/ JobCall
    \/ JobOverflow
    \/ ReturnToCaller
    \/ ReturnToMain
    \/ PrintSorted

Spec == Init /\ [][Next]_vars

NextTwice == Next \/ RunAgain

SpecTwice == Init /\ [][NextTwice]_vars

(***************************************************************************)
(* Vocabulary of the properties                                            *)
(***************************************************************************)
Range(seq) == {seq[k] : k \in 1..Len(seq)}

\* Every JobInfo a call has collected or returned so far.
Collected ==
    UNION {Range(stack[k].job_infos) : k \in 1..Depth}
    \cup UNION {Range(returned[k].job_infos) : k \in 1..Len(returned)}

\* The calls of parse_workflow_jobs seen so far, running or returned to main:
\* the file, the collected job_infos and the position i of the loop (the jobs
\* before i have been walked).
Calls ==
    {[file |-> stack[k].file, job_infos |-> stack[k].job_infos, i |-> stack[k].i] :
        k \in 1..Depth}
    \cup Range(returned)

\* The JobInfos of a call that come from the job at position i of its file.
FromJob(call, i) == {k \in 1..Len(call.job_infos) : call.job_infos[k].chain[1] = <<call.file, i>>}

WrittenJobs(file) == JobsOf(disk[file])

\* The effective name of a written job: its display name, else its id.
EffectiveName(job) == IF Len(job.name) = 1 THEN job.name[1] ELSE job.id

\* The display name of a workflow file, else its file stem.
DisplayName(file) ==
    IF Len(disk[file].name) = 1 THEN disk[file].name[1] ELSE Stem(file)

\* The path a local uses string names, relative to the repository root.
PathOfUses(uses) == SubSeq(uses, 3, Len(uses))

IsLocal(job) ==
    /\ job.isMap /\ Len(job.uses) = 1
    /\ Len(job.uses[1]) >= 20 /\ SubSeq(job.uses[1], 1, 20) = "./.github/workflows/"

IsTerminal(job) == job.isMap /\ ~IsLocal(job)

\* The job written at a place <<file, position>>.
JobAt(place) == JobsOf(disk[place[1]])[place[2]]

\* The number of separators " / " in a name.
Separators(name) == Cardinality({k \in 1..(Len(name) - 2) : SubSeq(name, k, k + 2) = " / "})

\* The effective names of the jobs of a chain, joined by the separator.
RECURSIVE JoinedNames(_)
JoinedNames(chain) ==
    IF Len(chain) = 1 THEN EffectiveName(JobAt(chain[1]))
    ELSE EffectiveName(JobAt(chain[1])) \o " / " \o JoinedNames(Tail(chain))

\* The trigger rule of the classifier, on the file as written: the trigger is
\* a mapping whose only key is workflow_call.
OnlyWorkflowCall(text) ==
    /\ text.syntax = "ok"
    /\ text.onKey # "absent"
    /\ text.on.shape = "map"
    /\ text.on.keys = <<"workflow_call">>

(***************************************************************************)
(* C1                                                                      *)
(***************************************************************************)
\* C1: a chain of local calls that comes back to a workflow already being
\* resolved is cut there: no workflow file is on the call stack twice.
C1_CyclicChainIsCut ==
    \A k, l \in 1..Depth : k < l => stack[k].file # stack[l].file

(***************************************************************************)
(* C2                                                                      *)
(***************************************************************************)
\* C2: a workflow file is classified purely reusable if and only if its
\* trigger is a mapping whose only key is workflow_call.
C2_ReusableIffOnlyWorkflowCall ==
    pc # "idle" =>
        \A f \in Range(files) : (f \notin Range(top)) <=> OnlyWorkflowCall(disk[f])

(***************************************************************************)
(* C3                                                                      *)
(***************************************************************************)
\* Every collected name is the effective names of the jobs of its chain, in
\* call order, joined by " / ": a chain of k jobs gives k - 1 separators.
C3_NameIsJoinedChain ==
    \A e \in Collected :
        /\ e.name = JoinedNames(e.chain)
        /\ Separators(e.name) = Len(e.chain) - 1

\* A return to a calling job adds exactly one JobInfo per JobInfo the callee
\* returned, named caller job " / " callee name, and nothing else.
C3_OnePerCalleeJob ==
    (Depth > 1 /\ Len(stack') = Depth - 1) =>
        LET before == stack[Depth - 1].job_infos
            after == stack'[Depth - 1].job_infos
            sub == Frame.job_infos
            caller_job == stack[Depth - 1].jobs[stack[Depth - 1].i]
        IN  /\ Len(after) = Len(before) + Len(sub)
            /\ SubSeq(after, 1, Len(before)) = before
            /\ \A k \in 1..Len(sub) :
                  after[Len(before) + k].name
                      = EffectiveName(caller_job) \o " / " \o sub[k].name

\* C3: along a chain of local calls of depth k the caller's job yields one
\* ResolvedJob per ResolvedJob of the callee and no others, named by the
\* effective names of the k jobs in call order joined by " / ".
C3_ChainedNames == []C3_NameIsJoinedChain /\ [][C3_OnePerCalleeJob]_vars

\* A top-level call has returned a name built along three different files.
C3_Witness ==
    \E r \in Range(returned) : \E e \in Range(r.job_infos) :
        /\ Len(e.chain) = 3
        /\ Cardinality({e.chain[k][1] : k \in 1..3}) = 3
        /\ Separators(e.name) = 2

C5_ExpandedOnlyIfIndexed ==
    pc = "loop" => \A k \in 2..Depth : stack[k].file \in Range(files)

\* C5 as amended: a walked job whose local reference names a path that does
\* not exist under the repository root yields exactly one JobInfo, under the
\* job's own effective name, with a ReusableWorkflowNotFound warning and no
\* expansion, and the loop goes on to the next job; a reference is expanded
\* only when its path exists, listed by find_workflow_files or not.
C5_MissingPathFallsBack ==
    /\ \A call \in Calls : \A i \in 1..(call.i - 1) :
          LET job == WrittenJobs(call.file)[i]
          IN  (IsLocal(job) /\ PathOfUses(job.uses[1]) \notin DOMAIN disk) =>
                  /\ Cardinality(FromJob(call, i)) = 1
                  /\ \A k \in FromJob(call, i) :
                        /\ call.job_infos[k].chain = << <<call.file, i>> >>
                        /\ call.job_infos[k].name = EffectiveName(job)
                  /\ <<"NotFound", job.uses[1]>> \in log
    /\ \A e \in Collected : \A k \in 2..Len(e.chain) :
          /\ e.chain[k][1] \in DOMAIN disk
          /\ e.chain[k][1] = PathOfUses(JobAt(e.chain[k - 1]).uses[1])
    /\ \A k \in 2..Depth :
          /\ stack[k].file \in DOMAIN disk
          /\ stack[k].file = PathOfUses(stack[k - 1].jobs[stack[k - 1].i].uses[1])
    /\ \A r \in Range(returned) :
          (/\ disk[r.file].syntax = "ok"
           /\ \A i \in 1..Len(WrittenJobs(r.file)) : IsTerminal(WrittenJobs(r.file)[i])
               \/ (IsLocal(WrittenJobs(r.file)[i])
                   /\ PathOfUses(WrittenJobs(r.file)[i].uses[1]) \notin DOMAIN disk))
          => r.i = Len(WrittenJobs(r.file)) + 1

\* A call returned to main the fallback for a missing path and, after it, the
\* JobInfo of the next job.
C5_Witness ==
    \E r \in Range(returned) :
        /\ Len(r.job_infos) = 2
        /\ IsLocal(WrittenJobs(r.file)[1])
        /\ PathOfUses(WrittenJobs(r.file)[1].uses[1]) \notin DOMAIN disk
        /\ r.job_infos[1].name = EffectiveName(WrittenJobs(r.file)[1])
        /\ <<"NotFound", WrittenJobs(r.file)[1].uses[1]>> \in log

(***************************************************************************)
(* C6                                                                      *)
(***************************************************************************)
\* The pairs of the JobInfos the calls of main returned.
ReturnedPairs ==
    {<<e.workflow_name, e.name>> :
        e \in UNION {Range(r.job_infos) : r \in Range(returned)}}

Failed(file) == \E ev \in log : ev[1] \in {"YAMLError", "UnknownError"} /\ ev[2] = file

FirstBadJob(file) ==
    LET bad == {i \in 1..Len(WrittenJobs(file)) : ~WrittenJobs(file)[i].isMap}
    IN  IF bad = {} THEN 0 ELSE CHOOSE i \in bad : \A j \in bad : i <= j

C8_TerminalJobYieldsOwnName ==
    /\ \A call \in Calls : \A i \in 1..(call.i - 1) :
          LET job == WrittenJobs(call.file)[i]
          IN  IsTerminal(job) =>
                  /\ Cardinality(FromJob(call, i)) = 1
                  /\ \A k \in FromJob(call, i) :
                        /\ call.job_infos[k].chain = << <<call.file, i>> >>
                        /\ call.job_infos[k].name = EffectiveName(job)
                        /\ Separators(call.job_infos[k].name) = 0
    /\ \A r \in Range(returned) :
          /\ (disk[r.file].syntax = "ok" /\ FirstBadJob(r.file) = 0)
                => r.i = Len(WrittenJobs(r.file)) + 1
          /\ (disk[r.file].syntax = "ok" /\ disk[r.file].jobs = <<>>)
                => r.job_infos = <<>>

\* A call returned the JobInfos of a job without uses under its display name
\* and of a job that uses an external action; another call, on a file without
\* a jobs key, returned nothing.
C8_Witness ==
    /\ \E r \in Range(returned) : \E i, j \in 1..Len(WrittenJobs(r.file)) :
          /\ disk[r.file].syntax = "ok"
          /\ WrittenJobs(r.file)[i].uses = <<>>
          /\ WrittenJobs(r.file)[j].uses = <<ExternalUses>>
          /\ Len(r.job_infos) = 2
    /\ \E r \in Range(returned) :
          disk[r.file].syntax = "ok" /\ disk[r.file].jobs = <<>> /\ r.job_infos = <<>>

(***************************************************************************)
(* C9                                                                      *)
(***************************************************************************)
\* C9: a second run of main over the unchanged files prints the same sequence
\* as the first, whatever the order in which each run listed the files.
C9_SameOutputTwice ==
    (run = 2 /\ pc = "done") => out = prev.out

\* The second run is done; it listed the files in another order than the
\* first, and printed pairs of two workflows.
C9_Witness ==
    /\ run = 2 /\ pc = "done"
    /\ files # prev.files
    /\ Len(returned) = 2
    /\ \A r \in Range(returned) : r.job_infos # <<>>
    /\ Cardinality({out[k][1] : k \in 1..Len(out)}) = 2

(***************************************************************************)
(* C10                                                                     *)
(***************************************************************************)
\* The positions of the jobs of a chain.
Positions(chain) == [k \in 1..Len(chain) |-> chain[k][2]]

\* p comes before q in the order of the positions, the caller's first.
RECURSIVE Before(_, _)
Before(p, q) ==
    IF p = <<>> \/ q = <<>> THEN FALSE
    ELSE IF Head(p) = Head(q) THEN Before(Tail(p), Tail(q))
    ELSE Head(p) < Head(q)

\* C10: in the list of every call the JobInfos stand in the order of the jobs
\* mapping: those of an earlier job before those of a later one, and those
\* expanded from one job together, in the order the callee's list has them
\* (the same rule, applied to the callee's jobs).
C10_InsertionOrder ==
    \A call \in Calls : \A k, l \in 1..Len(call.job_infos) :
        k < l =>
            /\ call.job_infos[k].chain[1][1] = call.file
            /\ Before(Positions(call.job_infos[k].chain),
                      Positions(call.job_infos[l].chain))

\* A call returned a job's own JobInfo and then two JobInfos expanded from
\* the next job.
C10_Witness ==
    \E r \in Range(returned) :
        /\ Len(r.job_infos) = 3
        /\ Positions(r.job_infos[1].chain) = <<1>>
        /\ Positions(r.job_infos[2].chain) = <<2, 1>>
        /\ Positions(r.job_infos[3].chain) = <<2, 2>>

====
